---- MODULE Spec2Model ----
(***************************************************************************)
(* Model of src/src/index.ts: canChain decides whether a list of dominoes  *)
(* can be laid out as a closed chain, by checking that every pip value     *)
(* occurs an even number of times (allEvenDegree) and that the graph of    *)
(* the dominoes is connected (isConnected, a recursive depth-first search  *)
(* over an adjacency list derived from a boolean adjacency matrix).        *)
(*                                                                         *)
(* Array indices are 0-based as in the source: the matrix, the adjacency   *)
(* list and the visited array are functions over 0..n-1.  The list of      *)
(* nodes and the input are TLA+ sequences (1-based); findIndex converts.   *)
(***************************************************************************)
EXTENDS Integers, Sequences, FiniteSets, TLC

\* Bounds of the model: pip values are 0..MaxPip, inputs hold at most MaxLen
\* dominoes; inputs with malformed elements hold at most MaxBadLen elements.
MaxPip == 2
MaxLen == 3
MaxBadLen == 2

\* findIndex's result when no element matches
NotFound == -1

\* type Dnum = 0 | 1 | ... | 6, cut at MaxPip
Dnum == 0..MaxPip

\* type Domino = [Dnum, Dnum]
Domino == [1..2 -> Dnum]

\* type EdgeSet = Domino[]
EdgeSet == UNION {[1..n -> Domino] : n \in 0..MaxLen}

\* What reaches canChain when the caller bypasses the type checker: arrays
\* whose elements have one, two or three components.
Tuple == UNION {[1..k -> Dnum] : k \in 1..3}
UntypedEdgeSet == UNION {[1..n -> Tuple] : n \in 0..MaxBadLen}

\* The engine's bound on the depth of recursion (a RangeError beyond it),
\* scaled to the model: larger than any number of vertices an input can have.
StackLimit == 2 * MaxLen + 2

-----------------------------------------------------------------------------
(* Helper and conversion functions                                         *)

\* dominoes.flatMap(id): the components of the elements, concatenated
RECURSIVE flatMap(_)
flatMap(ds) == IF ds = <<>> THEN <<>> ELSE Head(ds) \o flatMap(Tail(ds))

\* In the folds below the accumulator of each step is bound by a quantifier
\* over a one-element set: the step is then evaluated once, as the code
\* evaluates it, instead of once for every use of its result.

\* set.add(x) on a Set kept in insertion order
setAdd(acc, x) ==
  IF \E i \in DOMAIN acc : acc[i] = x THEN acc ELSE Append(acc, x)

\* [...new Set(xs)]: the distinct values of xs in order of first occurrence
RECURSIVE spreadSet(_, _)
spreadSet(xs, acc) ==
  IF xs = <<>> THEN acc
  ELSE CHOOSE r \in {spreadSet(Tail(xs), a) : a \in {setAdd(acc, Head(xs))}} :
         TRUE

getNodes(dominoes) == spreadSet(flatMap(dominoes), <<>>)

\* nodes.findIndex((node) => node === digit), 0-based
findIndex(nodes, digit) ==
  IF \E i \in DOMAIN nodes : nodes[i] = digit
  THEN (CHOOSE i \in DOMAIN nodes :
          nodes[i] = digit /\ \A j \in 1..(i - 1) : nodes[j] # digit) - 1
  ELSE NotFound

\* nodeToBool applied to the k-th component of the destructured domino; a
\* missing component is undefined, which no node equals.
nodeToBool(nodes, domino, k) ==
  IF k \in DOMAIN domino THEN findIndex(nodes, domino[k]) ELSE NotFound

\* initMatrix: n rows of n false cells
initMatrix(n) == [i \in 0..(n - 1) |-> [j \in 0..(n - 1) |-> FALSE]]

\* Near misses of fillMatrix, against which the properties are tried: one
\* that leaves the diagonal alone, one without graph[y][x] = true.
fillMatrixSkipLoop(nodes, graph, domino) ==
  LET x == nodeToBool(nodes, domino, 1)
      y == nodeToBool(nodes, domino, 2)
      rows == DOMAIN graph.cells
  IN  IF ~graph.ok THEN graph
      ELSE IF x \notin rows THEN [ok |-> FALSE, cells |-> graph.cells]
      ELSE IF y \notin rows THEN [ok |-> FALSE, cells |-> graph.cells]
      ELSE IF x = y THEN graph
      ELSE [ok |-> TRUE,
            cells |-> [graph.cells EXCEPT ![x][y] = TRUE, ![y][x] = TRUE]]

fillMatrixOneWay(nodes, graph, domino) ==
  LET x == nodeToBool(nodes, domino, 1)
      y == nodeToBool(nodes, domino, 2)
      rows == DOMAIN graph.cells
  IN  IF ~graph.ok THEN graph
      ELSE IF x \notin rows THEN [ok |-> FALSE, cells |-> graph.cells]
      ELSE IF y \notin rows THEN [ok |-> FALSE, cells |-> graph.cells]
      ELSE [ok |-> TRUE, cells |-> [graph.cells EXCEPT ![x][y] = TRUE]]

\* fillMatrix: both cells of the domino are set, also when x = y.  graph is
\* [ok, cells]; ok = FALSE records the TypeError thrown when graph[x] or
\* graph[y] is undefined.  Writing index -1 of an existing row adds a property
\* that map and filter never see, so it leaves the cells as they are.
fillMatrix(nodes, graph, domino) ==
  LET x == nodeToBool(nodes, domino, 1)
      y == nodeToBool(nodes, domino, 2)
      rows == DOMAIN graph.cells
  IN  IF ~graph.ok THEN graph
      ELSE IF x \notin rows THEN [ok |-> FALSE, cells |-> graph.cells]
      ELSE IF y \notin rows THEN [ok |-> FALSE, cells |-> graph.cells]
      ELSE [ok |-> TRUE,
            cells |-> [graph.cells EXCEPT ![x][y] = TRUE, ![y][x] = TRUE]]

\* dominoes.reduce(fillMatrix, initMatrix)
RECURSIVE reduceFillMatrix(_, _, _)
reduceFillMatrix(nodes, ds, graph) ==
  IF ds = <<>> THEN graph
  ELSE CHOOSE r \in {reduceFillMatrix(nodes, Tail(ds), g) :
                        g \in {fillMatrix(nodes, graph, Head(ds))}} : TRUE

toAdjacencyMatrix(dominoes) ==
  CHOOSE r \in {reduceFillMatrix(nodes, dominoes,
                                 [ok |-> TRUE, cells |-> initMatrix(Len(nodes))]) :
                  nodes \in {getNodes(dominoes)}} : TRUE

\* one row of toAdjencyList: the indexes of the filled cells, ascending
RECURSIVE filledIndexes(_, _)
filledIndexes(row, index) ==
  IF index \notin DOMAIN row THEN <<>>
  ELSE (IF row[index] THEN <<index>> ELSE <<>>) \o filledIndexes(row, index + 1)

toAdjencyList(graph) == [i \in DOMAIN graph |-> filledIndexes(graph[i], 0)]

-----------------------------------------------------------------------------
(* depthFirstSearch, one call at a time.  A configuration is               *)
(* [status, visited, stack]; a stack frame [node, todo] is a call in       *)
(* progress with the elements its forEach has still to process.            *)

\* Near misses of the filter: none at all, and one that lost its negation.
unvisitedNoFilter(row, visited) == row

unvisitedNegationLost(row, visited) ==
  SelectSeq(row, LAMBDA adjacent : adjacent \in DOMAIN visited /\ visited[adjacent])

\* graph[node].filter((adjacent) => !visited[adjacent]); an index past the
\* end of visited reads undefined, which counts as unvisited
unvisitedNodes(row, visited) ==
  SelectSeq(row, LAMBDA adjacent : adjacent \notin DOMAIN visited \/ ~visited[adjacent])

\* visited[node] = true (the array grows when node is past its end)
markVisited(visited, node) ==
  [i \in (DOMAIN visited) \cup {node} |->
     IF i = node THEN TRUE ELSE visited[i]]

\* entry of depthFirstSearch(graph, visited, node) up to the filter: a call
\* past the engine's stack limit is a RangeError, graph[node] undefined is a
\* TypeError (after visited[node] = true)
dfsEnter(graph, cfg, node) ==
  LET v == markVisited(cfg.visited, node)
  IN  IF Len(cfg.stack) >= StackLimit
      THEN [status |-> "RangeError", visited |-> cfg.visited, stack |-> cfg.stack]
      ELSE IF node \notin DOMAIN graph
      THEN [status |-> "TypeError", visited |-> v, stack |-> cfg.stack]
      ELSE [status |-> "ok", visited |-> v,
            stack |-> <<[node |-> node, todo |-> unvisitedNodes(graph[node], v)]>>
                      \o cfg.stack]

\* the next step of the call on top of the stack: its forEach calls
\* depthFirstSearch on its next element, or it returns
dfsStep(graph, cfg) ==
  LET top == Head(cfg.stack)
  IN  IF top.todo = <<>>
      THEN [cfg EXCEPT !.stack = Tail(cfg.stack)]
      ELSE dfsEnter(graph,
                    [cfg EXCEPT !.stack = <<[top EXCEPT !.todo = Tail(top.todo)]>>
                                          \o Tail(cfg.stack)],
                    Head(top.todo))

\* the whole of a depthFirstSearch call
RECURSIVE dfsRun(_, _)
dfsRun(graph, cfg) ==
  IF cfg.status # "ok" \/ cfg.stack = <<>> THEN cfg
  ELSE dfsRun(graph, dfsStep(graph, cfg))

\* A near miss of every: some.
everySome(visited) == \E i \in DOMAIN visited : visited[i]

\* visited.every((x) => x === true)
every(visited) == \A i \in DOMAIN visited : visited[i]

\* [...new Array(nodes.length)].map((_) => false)
initVisited(n) == [i \in 0..(n - 1) |-> FALSE]

\* isConnected as a function of its input: the outcome is "returned" with the
\* boolean in value, or the name of the error thrown
isConnected(ds) ==
  LET ns == getNodes(ds)
      m == toAdjacencyMatrix(ds)
      g == toAdjencyList(m.cells)
      end == dfsRun(g, dfsEnter(g, [status |-> "ok",
                                    visited |-> initVisited(Len(ns)),
                                    stack |-> <<>>], 0))
  IN  IF ~m.ok THEN [outcome |-> "TypeError", value |-> FALSE]
      ELSE IF end.status # "ok" THEN [outcome |-> end.status, value |-> FALSE]
      ELSE [outcome |-> "returned", value |-> every(end.visited)]

-----------------------------------------------------------------------------
(* allEvenDegree                                                           *)

\* A near miss of isEven: the test inverted.
isEvenInverted(n) == n % 2 = 1

isEven(n) == n % 2 = 0

\* A near miss of addToMap: a key already present keeps its count.
addToMapNoIncrement(m, key) ==
  IF \E i \in DOMAIN m : m[i].key = key
  THEN m
  ELSE Append(m, [key |-> key, count |-> 1])

\* addToMap; the Map is a sequence of [key, count] in insertion order
addToMap(m, key) ==
  IF \E i \in DOMAIN m : m[i].key = key
  THEN [i \in DOMAIN m |->
          IF m[i].key = key THEN [key |-> key, count |-> m[i].count + 1]
          ELSE m[i]]
  ELSE Append(m, [key |-> key, count |-> 1])

RECURSIVE reduceAddToMap(_, _)
reduceAddToMap(keys, m) ==
  IF keys = <<>> THEN m
  ELSE CHOOSE r \in {reduceAddToMap(Tail(keys), m1) :
                        m1 \in {addToMap(m, Head(keys))}} : TRUE

\* dominoes.flatMap(id).reduce(addToMap, new Map())
countMap(dominoes) == reduceAddToMap(flatMap(dominoes), <<>>)

\* nodeCounts.every(isEven)
everyIsEven(m) == \A i \in DOMAIN m : isEven(m[i].count)

allEvenDegree(dominoes) == everyIsEven(countMap(dominoes))

\* canChain as a function of its input
canChain(dominoes) ==
  IF Len(dominoes) = 0 THEN [outcome |-> "returned", value |-> TRUE]
  ELSE IF ~allEvenDegree(dominoes) THEN [outcome |-> "returned", value |-> FALSE]
  ELSE isConnected(dominoes)

-----------------------------------------------------------------------------
(* The evaluation of canChain(dominoes) as a state machine                 *)

VARIABLES dominoes, pc, counts, nodes, matrix, graph, visited, stack, calls,
          outcome, result

vars == <<dominoes, pc, counts, nodes, matrix, graph, visited, stack, calls,
          outcome, result>>

Start(inputs, entry) ==
  /\ dominoes \in inputs
  /\ pc = entry
  /\ counts = <<>>
  /\ nodes = <<>>
  /\ matrix = <<>>
  /\ graph = <<>>
  /\ visited = <<>>
  /\ stack = <<>>
  /\ calls = <<>>
  /\ outcome = "running"
  /\ result = FALSE

Init == Start(EdgeSet, "canChain")

\* dominoes.length === 0 || ...
CanChainEmpty ==
  /\ pc = "canChain"
  /\ Len(dominoes) = 0
  /\ pc' = "done"
  /\ outcome' = "returned"
  /\ result' = TRUE
  /\ UNCHANGED <<dominoes, counts, nodes, matrix, graph, visited, stack, calls>>

\* ... || (allEvenDegree(dominoes) && ...
AllEvenDegree ==
  /\ pc = "canChain"
  /\ Len(dominoes) # 0
  /\ counts' = countMap(dominoes)
  /\ IF everyIsEven(counts')
     THEN pc' = "isConnected" /\ UNCHANGED <<outcome, result>>
     ELSE pc' = "done" /\ outcome' = "returned" /\ result' = FALSE
  /\ UNCHANGED <<dominoes, nodes, matrix, graph, visited, stack, calls>>

\* isConnected: const nodes, const visited
IsConnected ==
  /\ pc = "isConnected"
  /\ nodes' = getNodes(dominoes)
  /\ visited' = initVisited(Len(nodes'))
  /\ pc' = "toAdjacencyMatrix"
  /\ UNCHANGED <<dominoes, counts, matrix, graph, stack, calls, outcome, result>>

\* isConnected: toAdjacencyMatrix(dominoes); a TypeError ends the evaluation
ToAdjacencyMatrix ==
  /\ pc = "toAdjacencyMatrix"
  /\ \E m \in {toAdjacencyMatrix(dominoes)} :
       /\ matrix' = m.cells
       /\ IF m.ok
          THEN pc' = "toAdjencyList" /\ UNCHANGED outcome
          ELSE pc' = "done" /\ outcome' = "TypeError"
  /\ UNCHANGED <<dominoes, counts, nodes, graph, visited, stack, calls, result>>

\* isConnected: const graph = toAdjencyList(...)
ToAdjencyList ==
  /\ pc = "toAdjencyList"
  /\ graph' = toAdjencyList(matrix)
  /\ pc' = "depthFirstSearch"
  /\ UNCHANGED <<dominoes, counts, nodes, matrix, visited, stack, calls, outcome,
                 result>>

\* isConnected: depthFirstSearch(graph, visited, 0), up to the filter
DepthFirstSearch ==
  /\ pc = "depthFirstSearch"
  /\ \E cfg \in {dfsEnter(graph, [status |-> "ok", visited |-> visited,
                                   stack |-> <<>>], 0)} :
       /\ visited' = cfg.visited
       /\ stack' = cfg.stack
       /\ IF cfg.status = "ok"
          THEN pc' = "dfs" /\ UNCHANGED outcome
          ELSE pc' = "done" /\ outcome' = cfg.status
  /\ calls' = <<0>>
  /\ UNCHANGED <<dominoes, counts, nodes, matrix, graph, result>>

\* the forEach of the call on top of the stack calls depthFirstSearch
DfsRecurse ==
  /\ pc = "dfs"
  /\ stack # <<>>
  /\ Head(stack).todo # <<>>
  /\ \E cfg \in {dfsStep(graph, [status |-> "ok", visited |-> visited,
                                  stack |-> stack])} :
       /\ visited' = cfg.visited
       /\ stack' = cfg.stack
       /\ IF cfg.status = "ok"
          THEN UNCHANGED <<pc, outcome>>
          ELSE pc' = "done" /\ outcome' = cfg.status
  /\ calls' = Append(calls, Head(Head(stack).todo))
  /\ UNCHANGED <<dominoes, counts, nodes, matrix, graph, result>>

\* the call on top of the stack has nothing left to process and returns
DfsReturn ==
  /\ pc = "dfs"
  /\ stack # <<>>
  /\ Head(stack).todo = <<>>
  /\ stack' = dfsStep(graph, [status |-> "ok", visited |-> visited,
                              stack |-> stack]).stack
  /\ UNCHANGED <<dominoes, pc, counts, nodes, matrix, graph, visited, calls,
                 outcome, result>>

\* return visited.every((x) => x === true)
IsConnectedReturn ==
  /\ pc = "dfs"
  /\ stack = <<>>
  /\ pc' = "done"
  /\ outcome' = "returned"
  /\ result' = every(visited)
  /\ UNCHANGED <<dominoes, counts, nodes, matrix, graph, visited, stack, calls>>

Next ==
  \/ CanChainEmpty
  \/ AllEvenDegree
  \/ IsConnected
  \/ ToAdjacencyMatrix
  \/ ToAdjencyList
  \/ DepthFirstSearch
  \/ DfsRecurse
  \/ DfsReturn
  \/ IsConnectedReturn

Spec == Init /\ [][Next]_vars

\* The evaluation is synchronous: a step that can be taken is taken.
FairSpec == Spec /\ WF_vars(Next)

\* isConnected called on its own, on any well-typed input
InitIsConnected == Start(EdgeSet, "isConnected")

NextIsConnected ==
  \/ IsConnected
  \/ ToAdjacencyMatrix
  \/ ToAdjencyList
  \/ DepthFirstSearch
  \/ DfsRecurse
  \/ DfsReturn
  \/ IsConnectedReturn

SpecIsConnected == InitIsConnected /\ [][NextIsConnected]_vars

\* canChain called on arrays whose elements need not be pairs
InitUntyped == Start(UntypedEdgeSet, "canChain")

SpecUntyped == InitUntyped /\ [][Next]_vars

-----------------------------------------------------------------------------
(* Properties                                                              *)

Done == pc = "done"

Returned(b) == pc = "done" /\ outcome = "returned" /\ result = b

\* the answer of the evaluation, in the shape canChain(ds) has
Answer == [outcome |-> outcome, value |-> result]

Pips(ds) == {ds[i][k] : i \in DOMAIN ds, k \in 1..2}

SelfLoopAt(ds, i) == ds[i][1] = ds[i][2]

\* The dominoes of ds with positions in rest can be appended, each once and
\* in either orientation, to a chain that starts with pip first and
\* currently ends with pip last, so that the chain closes on first.
RECURSIVE ChainFrom(_, _, _, _)
ChainFrom(ds, rest, first, last) ==
  IF rest = {} THEN first = last
  ELSE \E i \in rest :
         \/ ds[i][1] = last /\ ChainFrom(ds, rest \ {i}, first, ds[i][2])
         \/ ds[i][2] = last /\ ChainFrom(ds, rest \ {i}, first, ds[i][1])

HasClosedChain(ds) ==
  \/ ds = <<>>
  \/ \E i \in DOMAIN ds :
       \/ ChainFrom(ds, DOMAIN ds \ {i}, ds[i][1], ds[i][2])
       \/ ChainFrom(ds, DOMAIN ds \ {i}, ds[i][2], ds[i][1])

\* C1: canChain returns true exactly when the dominoes, each used once and
\* free to be flipped, can be arranged in a closed chain (the empty input
\* counts as chainable).
C1_ClosedChainIff ==
  Done => outcome = "returned" /\ result = HasClosedChain(dominoes)

C1_Witness ==
  Returned(TRUE) /\ Len(dominoes) >= 3 /\ Cardinality(Pips(dominoes)) >= 3

Reordered(ds, p) == [i \in DOMAIN ds |-> ds[p[i]]]

\* C2: the result of canChain is the same for every reordering of the
\* dominoes, although the order decides the vertex depthFirstSearch starts at.
C2_OrderIndependent ==
  Done => \A p \in Permutations(DOMAIN dominoes) :
            canChain(Reordered(dominoes, p)) = Answer

C2_Witness ==
  /\ Returned(TRUE)
  /\ dominoes # <<>>
  /\ \E p \in Permutations(DOMAIN dominoes) :
       getNodes(Reordered(dominoes, p))[1] # getNodes(dominoes)[1]

Flipped(ds, i) == [ds EXCEPT ![i] = <<ds[i][2], ds[i][1]>>]

\* C3: swapping the two pips of the domino at any position leaves the
\* result of canChain unchanged.
C3_FlipIndependent ==
  Done => \A i \in DOMAIN dominoes : canChain(Flipped(dominoes, i)) = Answer

C3_Witness ==
  /\ Returned(TRUE)
  /\ \E i \in DOMAIN dominoes : ~SelfLoopAt(dominoes, i)

\* the pip values split into two non-empty groups that no domino joins
Splits(ds) ==
  \E S \in SUBSET Pips(ds) :
    /\ S # {}
    /\ S # Pips(ds)
    /\ \A i \in DOMAIN ds : (ds[i][1] \in S) <=> (ds[i][2] \in S)

EvenOccurrences(ds) ==
  \A a \in Pips(ds) :
    Cardinality({e \in (DOMAIN ds) \X (1..2) : ds[e[1]][e[2]] = a}) % 2 = 0

\* C4: a non-empty input whose pip values split into groups that no domino
\* joins is answered false, also when every pip value occurs an even number
\* of times and also when a group holds only self-loops.
C4_DisconnectedIsFalse ==
  (Done /\ Len(dominoes) > 0 /\ Splits(dominoes)) => Returned(FALSE)

C4_Witness ==
  /\ Returned(FALSE)
  /\ Splits(dominoes)
  /\ EvenOccurrences(dominoes)
  /\ \E i \in DOMAIN dominoes : SelfLoopAt(dominoes, i)

\* C5: on every well-formed input the evaluation of canChain terminates and
\* yields a boolean: no TypeError from a missing row, no unbounded recursion.
C5_Terminates == <>(pc = "done" /\ outcome = "returned")

C5_Witness ==
  /\ pc = "done"
  /\ outcome = "returned"
  /\ Len(calls) >= 2
  /\ \E i \in DOMAIN dominoes : SelfLoopAt(dominoes, i)
  /\ \E i, j \in DOMAIN dominoes : i # j /\ dominoes[i] = dominoes[j]

\* C6: an input with an element that is not a pair is rejected with an
\* InvalidInput failure: no boolean is returned and no other error is raised.
C6_MalformedRejected ==
  (Done /\ \E i \in DOMAIN dominoes : Len(dominoes[i]) # 2)
    => outcome = "InvalidInput"

\* C7: isConnected called on the empty sequence returns true without failing.
C7_EmptyIsConnected ==
  (Done /\ dominoes = <<>>) => (outcome = "returned" /\ result = TRUE)

\* C8: during one connectivity check each vertex index is the argument of at
\* most one depthFirstSearch call.
C8_NoRevisit ==
  \A i, j \in DOMAIN calls : calls[i] = calls[j] => i = j

Neighbours(i) == {graph[i][k] : k \in DOMAIN graph[i]}

Occurrences(ds, a) ==
  Cardinality({e \in (DOMAIN ds) \X (1..2) : ds[e[1]][e[2]] = a})

CountOf(m, a) ==
  IF \E i \in DOMAIN m : m[i].key = a
  THEN m[CHOOSE i \in DOMAIN m : m[i].key = a].count
  ELSE 0

\* the state in which isConnected has just built its adjacency list
GraphBuilt == pc = "depthFirstSearch"

\* C9 as stated: no vertex index appears in its own neighbour list, while a
\* self-loop (a, a) still adds two to the count of a.
C9_NoSelfNeighbour ==
  GraphBuilt =>
    /\ \A i \in DOMAIN graph : i \notin Neighbours(i)
    /\ \A a \in Pips(dominoes) :
         CountOf(countMap(dominoes), a) = Occurrences(dominoes, a)

\* C9 amended: a self-loop (a, a) contributes exactly one adjacency entry, the
\* index of a in a's own neighbour list, and nothing else: index j is in the
\* neighbour list of index i exactly when some domino bears the pips of i and
\* j, so i is its own neighbour exactly when the input holds (a, a); the
\* self-loop still adds two to the count of a.
C9_SelfLoopEntry ==
  GraphBuilt =>
    /\ nodes = getNodes(dominoes)
    /\ DOMAIN graph = 0..(Len(nodes) - 1)
        /\ \A i, j \in DOMAIN graph :
             (j \in Neighbours(i)) <=>
               \E k \in DOMAIN dominoes :
                 \/ dominoes[k] = <<nodes[i + 1], nodes[j + 1]>>
                 \/ dominoes[k] = <<nodes[j + 1], nodes[i + 1]>>
        /\ \A a \in Pips(dominoes) :
             CountOf(countMap(dominoes), a) = Occurrences(dominoes, a)

C9_Witness ==
  /\ GraphBuilt
  /\ \E i \in DOMAIN graph : i \in Neighbours(i) /\ Neighbours(i) # {i}
  /\ \E i \in DOMAIN graph : i \notin Neighbours(i)

RECURSIVE SumCounts(_)
SumCounts(m) == IF m = <<>> THEN 0 ELSE Head(m).count + SumCounts(Tail(m))

Counted == pc # "canChain" /\ dominoes # <<>>

\* C10: the count map folded in allEvenDegree has as its keys exactly the
\* distinct pip values getNodes returns, and its values sum to twice the
\* number of dominoes.
C10_CountMap ==
  Counted =>
    /\ {counts[i].key : i \in DOMAIN counts}
         = {getNodes(dominoes)[i] : i \in DOMAIN getNodes(dominoes)}
    /\ \A i, j \in DOMAIN counts : counts[i].key = counts[j].key => i = j
    /\ SumCounts(counts) = 2 * Len(dominoes)

C10_Witness ==
  /\ Counted
  /\ Len(dominoes) >= 2
  /\ \E i \in DOMAIN dominoes : SelfLoopAt(dominoes, i)
  /\ \E i \in DOMAIN dominoes : ~SelfLoopAt(dominoes, i)

====
